---- MODULE Spec2Model ----
(***************************************************************************)
(* WebsiteAudit (app.py): one audit object that fetches a page and runs    *)
(* four check groups, each appending findings to self.issues.              *)
(*                                                                         *)
(* Python strings are sequences of one-character strings, so that          *)
(* startswith, split, strip and int() are computed, not assumed.           *)
(* Python None is the record None; every other optional value is a record  *)
(* whose is_none field is FALSE.                                           *)
(***************************************************************************)
EXTENDS Integers, Sequences, FiniteSets, TLC

VARIABLES
    form_url,    \* home(): the url string of the submitted form
    world,       \* the remote site: what each network call will be answered
    url,         \* self.url
    response,    \* self.response
    soup,        \* self.soup
    load_time,   \* self.load_time (an attribute that may not exist)
    issues,      \* self.issues
    pc,          \* position of the caller: "fetch", "checks", "raised", "returned"
    ran          \* how many times each check group has completed

vars == <<form_url, world, url, response, soup, load_time, issues, pc, ran>>

----------------------------------------------------------------------------
(* Bounds of the model *)

MaxImgs == 2
MaxH1 == 2
MaxMeta == 1

(* Program constants *)

LoadTimeLimitMs == 3000
ImageSizeLimit == 500000
BytesPerKB == 1024

----------------------------------------------------------------------------
(* Python values *)

None == [is_none |-> TRUE]
Str(cs) == [is_none |-> FALSE, s |-> cs]
PyList(xs) == [t |-> "list", v |-> xs]

Whitespace == {" ", "\t", "\n"}

StartsWith(s, p) == Len(s) >= Len(p) /\ SubSeq(s, 1, Len(p)) = p

\* str.strip(): drop leading and trailing whitespace
Strip(s) ==
    LET keep == {i \in 1..Len(s) : s[i] \notin Whitespace}
    IN  IF keep = {} THEN <<>>
        ELSE LET lo == CHOOSE i \in keep : \A j \in keep : i <= j
                 hi == CHOOSE i \in keep : \A j \in keep : i >= j
             IN  SubSeq(s, lo, hi)

\* index of the first occurrence of sep in s, 0 when there is none
Find(s, sep) ==
    LET hits == {i \in 1..(Len(s) - Len(sep) + 1) : SubSeq(s, i, i + Len(sep) - 1) = sep}
    IN  IF hits = {} THEN 0 ELSE CHOOSE i \in hits : \A j \in hits : i <= j

\* str.split(sep): the list of the pieces of s between occurrences of sep
RECURSIVE Split(_, _)
Split(s, sep) ==
    LET i == Find(s, sep)
    IN  IF i = 0 THEN <<s>>
        ELSE <<SubSeq(s, 1, i - 1)>> \o Split(SubSeq(s, i + Len(sep), Len(s)), sep)

DigitChars == <<"0", "1", "2", "3", "4", "5", "6", "7", "8", "9">>
IsDigit(c) == \E d \in 1..10 : DigitChars[d] = c
DigitVal(c) == (CHOOSE d \in 1..10 : DigitChars[d] = c) - 1

RECURSIVE DigitsVal(_)
DigitsVal(s) ==
    IF s = <<>> THEN 0
    ELSE DigitsVal(SubSeq(s, 1, Len(s) - 1)) * 10 + DigitVal(s[Len(s)])

\* int(x) of a str: surrounding whitespace and one sign are accepted,
\* anything else than decimal digits raises ValueError
IntOfStr(s) ==
    LET t == Strip(s)
        signed == t # <<>> /\ t[1] \in {"+", "-"}
        body == IF signed THEN Tail(t) ELSE t
    IN  IF body # <<>> /\ \A i \in 1..Len(body) : IsDigit(body[i])
        THEN [ok |-> TRUE,
              val |-> IF signed /\ t[1] = "-" THEN 0 - DigitsVal(body) ELSE DigitsVal(body)]
        ELSE [ok |-> FALSE, val |-> 0]

----------------------------------------------------------------------------
(* String literals of the program *)

HTTP == <<"h", "t", "t", "p">>
HTTP_SCHEME == <<"h", "t", "t", "p", ":", "/", "/">>
HTTPS_SCHEME == <<"h", "t", "t", "p", "s", ":", "/", "/">>
SLASHES == <<"/", "/">>
SLASH == <<"/">>
UNKNOWN_SOURCE == <<"u", "n", "k", "n", "o", "w", "n", " ", "s", "o", "u", "r", "c", "e">>

\* A finding: the message template, its interpolated text, number and exception
Finding(m, text, num, err) == [msg |-> m, text |-> text, num |-> num, err |-> err]
Msg(m) == Finding(m, <<>>, 0, "")

MsgStatus == "Page returned status code {status_code}"
MsgFetchFailed == "Failed to fetch website: {e}"
MsgNoResponse == "No response from server to analyze security."
MsgNoHttps == "Website does not use HTTPS. Enable HTTPS for security."
MsgCertValid == "SSL certificate valid until {not_after}"
MsgCertFailed == "SSL certificate check failed: {e}"
MsgNoCsp == "Missing Content-Security-Policy header. Protects against XSS."
MsgNoXcto == "Missing X-Content-Type-Options header to prevent MIME-sniffing."
MsgNoHsts == "Missing Strict-Transport-Security header to enforce HTTPS."
MsgSlow == "Page load time is {load_time:.2f}s. Aim for under 3 seconds."
MsgNoLoadTime == "Page load time could not be measured."
MsgLargeImage == "Image {src} is large ({size/1024:.1f} KB). Optimize image size."
MsgSeoSkipped == "HTML content could not be parsed. SEO check skipped."
MsgNoTitle == "Missing or empty <title> tag."
MsgNoMetaDesc == "Missing meta description tag."
MsgNoH1 == "No <h1> tag found."
MsgMultiH1 == "Multiple <h1> tags found."
MsgAccSkipped == "HTML content could not be parsed. Accessibility check skipped."
MsgNoAlt == "Image missing alt attribute: {src}"
MsgNoLang == "Missing 'lang' attribute in <html> tag."

CSP == "Content-Security-Policy"
XCTO == "X-Content-Type-Options"
HSTS == "Strict-Transport-Security"
SecurityHeaders == {CSP, XCTO, HSTS}

Categories == {"security", "performance", "seo", "accessibility"}

----------------------------------------------------------------------------
(* The parsed document (BeautifulSoup tree), reduced to what the checks read *)

Text(cs) == [name |-> "#text", text |-> cs, contents |-> <<>>]
Elem(n, contents) == [name |-> n, text |-> <<>>, contents |-> contents]

\* bs4 Tag.string: the single child's string, None unless there is exactly one child
RECURSIVE TagString(_)
TagString(tag) ==
    IF Len(tag.contents) # 1 THEN None
    ELSE LET child == tag.contents[1]
         IN  IF child.name = "#text" THEN Str(child.text) ELSE TagString(child)

\* a str or None used as a condition
Truthy(x) == x # None /\ x.s # <<>>

\* every sequence over S of length at most n
SeqsUpTo(S, n) == UNION {[1..k -> S] : k \in 0..n}

TitleValues ==
    { None,
      Elem("title", <<>>),
      Elem("title", <<Text(<<" ", " ">>)>>),
      Elem("title", <<Text(<<"A">>)>>),
      Elem("title", <<Elem("b", <<Text(<<"B">>)>>)>>),
      Elem("title", <<Text(<<"A">>), Elem("b", <<Text(<<"B">>)>>)>>) }

MetaValues == {[name |-> "description"], [name |-> "viewport"]}

H1 == Elem("h1", <<Text(<<"A">>)>>)

HtmlValues ==
    { None,
      [is_none |-> FALSE, lang |-> None],
      [is_none |-> FALSE, lang |-> Str(<<>>)],
      [is_none |-> FALSE, lang |-> Str(<<"e", "n">>)] }

RelativeSrc == <<"/", "i">>
AbsoluteSrc == <<"h", "t", "t", "p", ":", "/", "/", "i">>
AltValues == {None, Str(<<"x">>)}

\* what requests.head(src) is answered with: an exception, or the
\* Content-Length header of the reply (None when the reply has none)
HeadFails == [ok |-> FALSE, content_length |-> None]
HeadReply(cl) == [ok |-> TRUE, content_length |-> cl]
HeadValues ==
    { HeadFails,
      HeadReply(None),
      HeadReply(Str(<<"x">>)),
      HeadReply(Str(<<"5", "0", "0", "0", "0", "0">>)),
      HeadReply(Str(<<"5", "0", "0", "0", "0", "1">>)) }

\* an <img> element together with the reply a HEAD request for it would get
ImgValues ==
    [src : {None, Str(RelativeSrc)}, alt : AltValues, head : {HeadFails}]
    \cup [src : {Str(AbsoluteSrc)}, alt : AltValues, head : HeadValues]

PlainDoc ==
    [title |-> Elem("title", <<Text(<<"A">>)>>),
     metas |-> <<[name |-> "description"]>>,
     h1s |-> <<H1>>,
     html |-> [is_none |-> FALSE, lang |-> Str(<<"e", "n">>)],
     imgs |-> <<>>]

MarkupDocs ==
    [title : TitleValues,
     metas : SeqsUpTo(MetaValues, MaxMeta),
     h1s : {[i \in 1..k |-> H1] : k \in 0..MaxH1},
     html : HtmlValues,
     imgs : {<<>>}]

ImageDocs == {[PlainDoc EXCEPT !.imgs = is] : is \in SeqsUpTo(ImgValues, MaxImgs)}

----------------------------------------------------------------------------
(* The remote site and the submitted form *)

NotAfter == <<"J", "a", "n", " ", "1">>
CertValues == {[ok |-> TRUE, notAfter |-> NotAfter], [ok |-> FALSE, notAfter |-> <<>>]}
StatusCodes == {200, 301, 404, 500}
LoadTimesMs == {2999, 3000, 3001}

PlainSite ==
    [status |-> 200, headers |-> SecurityHeaders,
     cert |-> [ok |-> TRUE, notAfter |-> NotAfter], doc |-> PlainDoc]

\* sites that differ in the reply to the main GET and in the certificate
ResponseSites ==
    [status : StatusCodes, headers : SUBSET SecurityHeaders, cert : CertValues, doc : {PlainDoc}]

\* sites that differ in the document served
DocumentSites == {[PlainSite EXCEPT !.doc = d] : d \in MarkupDocs \cup ImageDocs}

BareUrl == <<"a", ".", "b">>
HttpUrl == HTTP_SCHEME \o BareUrl
HttpsUrl == HTTPS_SCHEME \o BareUrl \o <<"/", "p">>
HttpPrefixedUrl == HTTP \o BareUrl
FormUrls == {BareUrl, HttpUrl, HttpsUrl, HttpPrefixedUrl}

\* the audits explored: every form url against every reply, and the plain
\* http and https urls against every document
Audits ==
    (FormUrls \X ResponseSites) \cup ({HttpUrl, HttpsUrl} \X DocumentSites)

----------------------------------------------------------------------------
(* WebsiteAudit.__init__ *)

NormalizeUrl(u) == IF StartsWith(u, HTTP) THEN u ELSE HTTP_SCHEME \o u

EmptyIssues == [c \in Categories |-> <<>>]

Init ==
    \E a \in Audits :
        /\ form_url = a[1]
        /\ world = a[2]
        /\ url = NormalizeUrl(a[1])
        /\ issues = EmptyIssues
        /\ soup = None
        /\ response = None
        /\ load_time = None
        /\ pc = "fetch"
        /\ ran = [c \in Categories |-> 0]

Append1(c, f) == [issues EXCEPT ![c] = Append(@, f)]

----------------------------------------------------------------------------
(* WebsiteAudit.fetch_website *)

\* requests.get refuses a url without an http:// or https:// scheme
CanRespond == StartsWith(url, HTTP_SCHEME) \/ StartsWith(url, HTTPS_SCHEME)

FetchWebsite ==
    /\ pc = "fetch"
    /\ pc' = "checks"
    /\ \/ \* requests.get raises
          /\ issues' = Append1("performance", Finding(MsgFetchFailed, <<>>, 0, "ConnectionError"))
          /\ UNCHANGED <<response, soup, load_time>>
       \/ /\ CanRespond
          /\ response' = [is_none |-> FALSE, status_code |-> world.status,
                          headers |-> world.headers]
          /\ \E ms \in LoadTimesMs : load_time' = [is_none |-> FALSE, ms |-> ms]
          /\ IF world.status = 200
             THEN \/ /\ soup' = [is_none |-> FALSE, doc |-> world.doc]
                     /\ UNCHANGED issues
                  \/ \* the parser raises
                     /\ issues' = Append1("performance",
                                          Finding(MsgFetchFailed, <<>>, 0, "ParserRejectedMarkup"))
                     /\ UNCHANGED soup
             ELSE /\ issues' = Append1("performance",
                                       Finding(MsgStatus, <<>>, world.status, ""))
                  /\ UNCHANGED soup
    /\ UNCHANGED <<form_url, world, url, ran>>

----------------------------------------------------------------------------
(* WebsiteAudit.analyze_security *)

\* "if not self.response": a requests.Response is true only when its status
\* code is below 400 (Response.__bool__ is Response.ok)
ResponseIsTrue == response # None /\ response.status_code < 400

\* self.url.split("//")[1].split("/"): the list of pieces, not its first element
Hostname ==
    LET parts == Split(url, SLASHES)
    IN  IF Len(parts) < 2 THEN [raised |-> TRUE, err |-> "IndexError", value |-> PyList(<<>>)]
        ELSE [raised |-> FALSE, err |-> "", value |-> PyList(Split(parts[2], SLASH))]

\* wrap_socket / connect / getpeercert: a server_hostname that is not a str
\* raises before any connection is made; otherwise the site's certificate decides
CertificateProbe(hostname) ==
    IF hostname.t # "str" THEN [raised |-> TRUE, err |-> "AttributeError", not_after |-> <<>>]
    ELSE IF world.cert.ok THEN [raised |-> FALSE, err |-> "", not_after |-> world.cert.notAfter]
    ELSE [raised |-> TRUE, err |-> "SSLCertVerificationError", not_after |-> <<>>]

SchemeFindings ==
    IF ~StartsWith(url, HTTPS_SCHEME) THEN <<Msg(MsgNoHttps)>>
    ELSE LET h == Hostname
         IN  IF h.raised THEN <<Finding(MsgCertFailed, <<>>, 0, h.err)>>
             ELSE LET cert == CertificateProbe(h.value)
                  IN  IF cert.raised THEN <<Finding(MsgCertFailed, <<>>, 0, cert.err)>>
                      ELSE <<Finding(MsgCertValid, cert.not_after, 0, "")>>

HeaderFindings ==
    LET headers == response.headers
    IN  (IF CSP \notin headers THEN <<Msg(MsgNoCsp)>> ELSE <<>>)
        \o (IF XCTO \notin headers THEN <<Msg(MsgNoXcto)>> ELSE <<>>)
        \o (IF HSTS \notin headers THEN <<Msg(MsgNoHsts)>> ELSE <<>>)

\* the early "return" after the placeholder left out
SecurityFindingsNoReturn ==
    IF ~ResponseIsTrue THEN <<Msg(MsgNoResponse)>> \o SchemeFindings
    ELSE SchemeFindings \o HeaderFindings

SecurityFindings ==
    IF ~ResponseIsTrue THEN <<Msg(MsgNoResponse)>>
    ELSE SchemeFindings \o HeaderFindings

AnalyzeSecurity ==
    /\ pc = "checks"
    /\ issues' = [issues EXCEPT !.security = @ \o SecurityFindings]
    /\ ran' = [ran EXCEPT !.security = @ + 1]
    /\ UNCHANGED <<form_url, world, url, response, soup, load_time, pc>>

----------------------------------------------------------------------------
(* WebsiteAudit.analyze_performance *)

\* f"{x:.2f}" of a time in seconds, as hundredths, from milliseconds
Format2f(ms) == (ms + 5) \div 10

\* f"{size/1024:.1f}", as tenths of a KB
FormatKB(size) == (size * 20 + BytesPerKB) \div (2 * BytesPerKB)

\* the comparison written ">=" in place of ">"
LoadTimeFindingsGE ==
    IF load_time # None
    THEN IF load_time.ms >= LoadTimeLimitMs
         THEN <<Finding(MsgSlow, <<>>, Format2f(load_time.ms), "")>> ELSE <<>>
    ELSE <<Msg(MsgNoLoadTime)>>

LoadTimeFindings ==
    IF load_time # None
    THEN IF load_time.ms > LoadTimeLimitMs
         THEN <<Finding(MsgSlow, <<>>, Format2f(load_time.ms), "")>> ELSE <<>>
    ELSE <<Msg(MsgNoLoadTime)>>

\* the body of the loop for one image: HEAD request, int(Content-Length), compare
ImageFinding(img) ==
    LET src == img.src
    IN  IF Truthy(src) /\ StartsWith(src.s, HTTP)
        THEN IF ~img.head.ok THEN [raised |-> TRUE, findings |-> <<>>]
             ELSE LET cl == img.head.content_length
                      size == IF cl = None THEN [ok |-> TRUE, val |-> 0] ELSE IntOfStr(cl.s)
                  IN  IF ~size.ok THEN [raised |-> TRUE, findings |-> <<>>]
                      ELSE IF size.val > ImageSizeLimit
                      THEN [raised |-> FALSE,
                            findings |-> <<Finding(MsgLargeImage, src.s, FormatKB(size.val), "")>>]
                      ELSE [raised |-> FALSE, findings |-> <<>>]
        ELSE [raised |-> FALSE, findings |-> <<>>]

\* the loop with "except: break" in place of "except: continue"
RECURSIVE ImageFindingsBreak(_)
ImageFindingsBreak(images) ==
    IF images = <<>> THEN <<>>
    ELSE LET r == ImageFinding(Head(images))
         IN  IF r.raised THEN <<>> ELSE r.findings \o ImageFindingsBreak(Tail(images))

\* for img in images: ... except: continue
RECURSIVE ImageFindings(_)
ImageFindings(images) ==
    IF images = <<>> THEN <<>>
    ELSE ImageFinding(Head(images)).findings \o ImageFindings(Tail(images))

PerformanceFindings ==
    LoadTimeFindings \o ImageFindings(IF soup # None THEN soup.doc.imgs ELSE <<>>)

AnalyzePerformance ==
    /\ pc = "checks"
    /\ issues' = [issues EXCEPT !.performance = @ \o PerformanceFindings]
    /\ ran' = [ran EXCEPT !.performance = @ + 1]
    /\ UNCHANGED <<form_url, world, url, response, soup, load_time, pc>>

----------------------------------------------------------------------------
(* WebsiteAudit.analyze_seo *)

\* self.soup.title.string.strip() on a title whose .string is None
SeoRaises ==
    /\ soup # None
    /\ soup.doc.title # None
    /\ TagString(soup.doc.title) = None

TitleFindings ==
    LET title == soup.doc.title
    IN  IF title = None \/ Strip(TagString(title).s) = <<>>
        THEN <<Msg(MsgNoTitle)>> ELSE <<>>

MetaFindings ==
    LET metas == soup.doc.metas
    IN  IF ~(\E i \in 1..Len(metas) : metas[i].name = "description")
        THEN <<Msg(MsgNoMetaDesc)>> ELSE <<>>

\* the second comparison written ">= 1" in place of "> 1"
H1FindingsOffByOne ==
    LET h1s == soup.doc.h1s
    IN  IF Len(h1s) = 0 THEN <<Msg(MsgNoH1)>>
        ELSE IF Len(h1s) >= 1 THEN <<Msg(MsgMultiH1)>>
        ELSE <<>>

H1Findings ==
    LET h1s == soup.doc.h1s
    IN  IF Len(h1s) = 0 THEN <<Msg(MsgNoH1)>>
        ELSE IF Len(h1s) > 1 THEN <<Msg(MsgMultiH1)>>
        ELSE <<>>

SeoFindings ==
    IF soup = None THEN <<Msg(MsgSeoSkipped)>>
    ELSE TitleFindings \o MetaFindings \o H1Findings

AnalyzeSeo ==
    /\ pc = "checks"
    /\ IF SeoRaises
       THEN /\ pc' = "raised"
            /\ UNCHANGED <<issues, ran>>
       ELSE /\ issues' = [issues EXCEPT !.seo = @ \o SeoFindings]
            /\ ran' = [ran EXCEPT !.seo = @ + 1]
            /\ UNCHANGED pc
    /\ UNCHANGED <<form_url, world, url, response, soup, load_time>>

----------------------------------------------------------------------------
(* WebsiteAudit.analyze_accessibility *)

RECURSIVE AltFindings(_)
AltFindings(images) ==
    IF images = <<>> THEN <<>>
    ELSE LET img == Head(images)
         IN  (IF ~Truthy(img.alt)
              THEN <<Finding(MsgNoAlt,
                             IF img.src = None THEN UNKNOWN_SOURCE ELSE img.src.s, 0, "")>>
              ELSE <<>>)
             \o AltFindings(Tail(images))

LangFindings ==
    LET html_tag == soup.doc.html
    IN  IF html_tag = None \/ ~Truthy(html_tag.lang) THEN <<Msg(MsgNoLang)>> ELSE <<>>

AccessibilityFindings ==
    IF soup = None THEN <<Msg(MsgAccSkipped)>>
    ELSE AltFindings(soup.doc.imgs) \o LangFindings

\* a check that appends to its own list and also reports into seo when seo is empty
AccessibilityIssuesShared ==
    [issues EXCEPT !.accessibility = @ \o AccessibilityFindings,
                   !.seo = IF @ = <<>> THEN AccessibilityFindings ELSE @]

AccessibilityIssues ==
    [issues EXCEPT !.accessibility = @ \o AccessibilityFindings]

AnalyzeAccessibility ==
    /\ pc = "checks"
    /\ issues' = AccessibilityIssues
    /\ ran' = [ran EXCEPT !.accessibility = @ + 1]
    /\ UNCHANGED <<form_url, world, url, response, soup, load_time, pc>>

----------------------------------------------------------------------------
(* WebsiteAudit.run_audit, as home() calls it *)

Completed == ran.security + ran.performance + ran.seo + ran.accessibility

Turn(k) == Completed = k - 1

RunSecurity == Turn(1) /\ AnalyzeSecurity
RunPerformance == Turn(2) /\ AnalyzePerformance
RunSeo == Turn(3) /\ AnalyzeSeo
RunAccessibility == Turn(4) /\ AnalyzeAccessibility

ReturnReport ==
    /\ pc = "checks"
    /\ Completed = 4
    /\ pc' = "returned"
    /\ UNCHANGED <<form_url, world, url, response, soup, load_time, issues, ran>>

Next == FetchWebsite \/ RunSecurity \/ RunPerformance \/ RunSeo \/ RunAccessibility
            \/ ReturnReport

Spec == Init /\ [][Next]_vars

(* The four check groups called once each, in any order, after the fetch *)

HasRun(c) == ran[c] > 0

AnySecurity == ~HasRun("security") /\ AnalyzeSecurity
AnyPerformance == ~HasRun("performance") /\ AnalyzePerformance
AnySeo == ~HasRun("seo") /\ AnalyzeSeo
AnyAccessibility == ~HasRun("accessibility") /\ AnalyzeAccessibility

NextAnyOrder == FetchWebsite \/ AnySecurity \/ AnyPerformance \/ AnySeo \/ AnyAccessibility

SpecAnyOrder == Init /\ [][NextAnyOrder]_vars

(* The four check groups called a second time on the same object *)

Round(k) == Completed = k - 1 \/ Completed = 4 + k - 1

AgainSecurity == Round(1) /\ AnalyzeSecurity
AgainPerformance == Round(2) /\ AnalyzePerformance
AgainSeo == Round(3) /\ AnalyzeSeo
AgainAccessibility == Round(4) /\ AnalyzeAccessibility

NextTwice == FetchWebsite \/ AgainSecurity \/ AgainPerformance \/ AgainSeo
                \/ AgainAccessibility

SpecTwice == Init /\ [][NextTwice]_vars

----------------------------------------------------------------------------
(* Properties *)

Has(c, m) == \E i \in 1..Len(issues[c]) : issues[c][i].msg = m
Images == IF soup # None THEN soup.doc.imgs ELSE <<>>

\* C1: run_audit never raises: whatever the fetch outcome and the document,
\* it reaches its return with all four categories in the report.
C1_RunAuditNeverRaises ==
    /\ pc # "raised"
    /\ pc = "returned" => DOMAIN issues = Categories

\* C2: when requests.get raises, the returned report has exactly the
\* placeholder in security, seo and accessibility, and performance holds
\* the "Failed to fetch website" finding.
C2_TransportFailureReport ==
    (pc # "fetch" /\ response = None) =>
        /\ pc # "raised"
        /\ HasRun("security") => issues.security = <<Msg(MsgNoResponse)>>
        /\ HasRun("seo") => issues.seo = <<Msg(MsgSeoSkipped)>>
        /\ HasRun("accessibility") => issues.accessibility = <<Msg(MsgAccSkipped)>>
        /\ Has("performance", MsgFetchFailed)
        /\ pc = "returned" =>
              /\ Len(issues.security) = 1
              /\ Len(issues.seo) = 1
              /\ Len(issues.accessibility) = 1

C2_Witness ==
    /\ pc = "returned"
    /\ response = None
    /\ issues.security = <<Msg(MsgNoResponse)>>
    /\ Has("performance", MsgFetchFailed)

\* C3: an https:// target, a 200 response with all three security headers
\* and a valid certificate leave exactly the "SSL certificate valid until"
\* line in the security list.
C3_CleanHttpsSecurity ==
    ( /\ HasRun("security")
      /\ StartsWith(url, HTTPS_SCHEME)
      /\ response # None
      /\ world.status = 200
      /\ world.headers = SecurityHeaders
      /\ world.cert.ok )
    => issues.security = <<Finding(MsgCertValid, world.cert.notAfter, 0, "")>>

\* C4: the "No response from server" placeholder appears only when the fetch
\* produced no response; with a response of any status code the scheme check
\* runs and each absent security header gets its finding.
HeaderMsg(h) == IF h = CSP THEN MsgNoCsp ELSE IF h = XCTO THEN MsgNoXcto ELSE MsgNoHsts

C4_PlaceholderOnlyWithoutResponse ==
    HasRun("security") =>
        /\ Has("security", MsgNoResponse) <=> response = None
        /\ response # None =>
              /\ \/ Has("security", MsgNoHttps)
                 \/ Has("security", MsgCertValid)
                 \/ Has("security", MsgCertFailed)
              /\ \A h \in SecurityHeaders :
                    Has("security", HeaderMsg(h)) <=> h \notin world.headers

\* C5: running the four check groups a second time on the same fetched
\* response and document leaves every category's list as it was after the
\* first run.
C5_SecondRunChangesNothing ==
    [][Completed >= 4 => issues' = issues]_vars

\* C6: a form url that begins with neither http:// nor https:// becomes
\* "http://" followed by it, any other is kept; and a scheme-less target that
\* got a response gets the "does not use HTTPS" finding.
NoScheme(u) == ~StartsWith(u, HTTP_SCHEME) /\ ~StartsWith(u, HTTPS_SCHEME)

C6_UrlNormalization ==
    /\ NoScheme(form_url) => url = HTTP_SCHEME \o form_url
    /\ ~NoScheme(form_url) => url = form_url
    /\ (NoScheme(form_url) /\ response # None /\ HasRun("security"))
          => Has("security", MsgNoHttps)

\* C7: after the fetch, each category's list is what the fetch left there
\* followed by that category's own findings when its check has run, and
\* nothing else, whatever the order in which the four checks are called; so
\* all 24 orders end in the same report.
FetchFindings ==
    IF response = None
    THEN <<Finding(MsgFetchFailed, <<>>, 0, "ConnectionError")>>
    ELSE IF response.status_code # 200
    THEN <<Finding(MsgStatus, <<>>, response.status_code, "")>>
    ELSE IF soup = None
    THEN <<Finding(MsgFetchFailed, <<>>, 0, "ParserRejectedMarkup")>>
    ELSE <<>>

OwnFindings(c) ==
    IF c = "security" THEN SecurityFindings
    ELSE IF c = "performance" THEN PerformanceFindings
    ELSE IF c = "seo" THEN SeoFindings
    ELSE AccessibilityFindings

C7_OrderIndependent ==
    pc # "fetch" =>
        \A c \in Categories :
            issues[c] = (IF c = "performance" THEN FetchFindings ELSE <<>>)
                        \o (IF HasRun(c) THEN OwnFindings(c) ELSE <<>>)

C7_Witness ==
    /\ HasRun("accessibility")
    /\ HasRun("seo")
    /\ ~HasRun("security")
    /\ ~HasRun("performance")
    /\ soup # None
    /\ issues.accessibility # <<>>
    /\ issues.seo # <<>>

\* C8: the slow-load finding is there exactly when a load time was recorded
\* and is above 3 s (3.000 s: none, 3.001 s: one); "could not be measured" is
\* there exactly when no load time was recorded; never both.
C8_LoadTimeThreshold ==
    HasRun("performance") =>
        /\ Has("performance", MsgSlow)
              <=> (load_time # None /\ load_time.ms > 3000)
        /\ Has("performance", MsgNoLoadTime) <=> load_time = None
        /\ ~(Has("performance", MsgSlow) /\ Has("performance", MsgNoLoadTime))

C8_Witness ==
    /\ HasRun("performance")
    /\ load_time # None
    /\ load_time.ms = 3000
    /\ ~Has("performance", MsgSlow)
    /\ ~Has("performance", MsgNoLoadTime)

\* C9: the oversized-image findings are one per image whose src starts with
\* "http", whose HEAD request succeeds and whose Content-Length is a number
\* above 500,000, in document order; a failed HEAD request or an unusable
\* Content-Length adds none and the images after it are still checked.
Oversized(img) ==
    /\ img.src # None
    /\ StartsWith(img.src.s, HTTP)
    /\ img.head.ok
    /\ img.head.content_length # None
    /\ IntOfStr(img.head.content_length.s).ok
    /\ IntOfStr(img.head.content_length.s).val >= 500001

LargeImageFindings == SelectSeq(issues.performance, LAMBDA f : f.msg = MsgLargeImage)

C9_ImageSizeThreshold ==
    HasRun("performance") =>
        /\ Len(LargeImageFindings) = Cardinality({i \in 1..Len(Images) : Oversized(Images[i])})
        /\ \A k \in 1..Len(LargeImageFindings) :
              \E i \in 1..Len(Images) :
                 Oversized(Images[i]) /\ LargeImageFindings[k].text = Images[i].src.s

C9_Witness ==
    /\ HasRun("performance")
    /\ Len(Images) = 2
    /\ Images[1].src = Str(AbsoluteSrc)
    /\ ~Images[1].head.ok
    /\ Oversized(Images[2])
    /\ Len(LargeImageFindings) = 1

\* C10: "No <h1>" and "Multiple <h1>" never appear together and a document
\* with exactly one h1 gets neither; the seo findings come in the order
\* title, meta description, h1; a whitespace-only title, no meta description
\* and two h1 give exactly those three findings; without a parsed document
\* the seo list is the skipped placeholder alone.
SeoRank(m) == IF m = MsgNoTitle THEN 1 ELSE IF m = MsgNoMetaDesc THEN 2 ELSE 3

BlankTitleTwoH1 ==
    /\ soup # None
    /\ soup.doc.title = Elem("title", <<Text(<<" ", " ">>)>>)
    /\ \A i \in 1..Len(soup.doc.metas) : soup.doc.metas[i].name # "description"
    /\ Len(soup.doc.h1s) = 2

C10_SeoFindings ==
    HasRun("seo") =>
        IF soup = None THEN issues.seo = <<Msg(MsgSeoSkipped)>>
        ELSE /\ ~(Has("seo", MsgNoH1) /\ Has("seo", MsgMultiH1))
             /\ Len(soup.doc.h1s) = 1 => ~Has("seo", MsgNoH1) /\ ~Has("seo", MsgMultiH1)
             /\ \A i, j \in 1..Len(issues.seo) :
                   i < j => SeoRank(issues.seo[i].msg) < SeoRank(issues.seo[j].msg)
             /\ BlankTitleTwoH1 =>
                   issues.seo = <<Msg(MsgNoTitle), Msg(MsgNoMetaDesc), Msg(MsgMultiH1)>>

C10_Witness ==
    /\ HasRun("seo")
    /\ BlankTitleTwoH1
    /\ issues.seo = <<Msg(MsgNoTitle), Msg(MsgNoMetaDesc), Msg(MsgMultiH1)>>

====
